---------------------------- MODULE Spec2Model ----------------------------
(***************************************************************************)
(* Model of the Mindkeeper typed store (scripts/Commandeer/mindKeeper.ts)  *)
(* and of the level 3 completion check that follows it in the same file.   *)
(*                                                                         *)
(* A step of the model is one callback of the host: a call of a public     *)
(* Mindkeeper method, one chat event, one task queued with system.run, or  *)
(* one tick of the level driver.                                           *)
(***************************************************************************)
EXTENDS Integers, Sequences, FiniteSets, TLC

(***************************************************************************)
(* Bounds of the model.                                                    *)
(***************************************************************************)
MaxStores == 2      \* registerStore calls
MaxPending == 2     \* tasks queued with system.run and not yet run
MaxChatPending == 1 \* the same, for the tasks a chat message queues
MaxNum == 2         \* largest number a store holds

(***************************************************************************)
(* Values of the script: a value carries its typeof tag.  Every value has  *)
(* the same four fields so that any two values can be compared.            *)
(***************************************************************************)
StoreType == {"string", "number", "boolean"}

StrV(x) == [t |-> "string", s |-> x, n |-> 0, b |-> FALSE]
NumV(x) == [t |-> "number", s |-> "", n |-> x, b |-> FALSE]
BoolV(x) == [t |-> "boolean", s |-> "", n |-> 0, b |-> x]
Vector3V == [t |-> "object", s |-> "", n |-> 0, b |-> FALSE]
Undefined == [t |-> "undefined", s |-> "", n |-> 0, b |-> FALSE]
NaNV == [t |-> "number", s |-> "NaN", n |-> 0, b |-> FALSE]

TypeOf(v) == v.t

IsNaN(v) == v = NaNV

Digits == <<"0", "1", "2", "3", "4", "5", "6", "7", "8", "9">>

RECURSIVE NumStr(_)
NumStr(k) == IF k < 10 THEN Digits[k + 1] ELSE NumStr(k \div 10) \o Digits[(k % 10) + 1]

\* `${value}` of a template literal
ToStr(v) ==
    CASE v.t = "string" -> v.s
      [] v.t = "number" -> IF IsNaN(v) THEN "NaN" ELSE NumStr(v.n)
      [] v.t = "boolean" -> IF v.b THEN "true" ELSE "false"
      [] v.t = "object" -> "[object Object]"
      [] OTHER -> "undefined"

(***************************************************************************)
(* Inputs.                                                                 *)
(***************************************************************************)
CURRENT_LEVEL == "level"

Store(type, name) == [type |-> type, name |-> name]

\* what split(" ")[i] gives past the end of the array (undefined)
NoToken == "<undefined>"

StoreNames == {CURRENT_LEVEL, "note"}

\* the registerStore calls of the model: every type, and a name with two types
Registrations ==
    {Store("number", CURRENT_LEVEL), Store("string", CURRENT_LEVEL), Store("boolean", "note")}

\* every key of the dynamic properties the model reads or writes
AllNames == StoreNames \cup {NoToken}

\* the values a caller passes to set: one of each typeof
SetValues == {StrV("1"), NumV(1), BoolV(TRUE), Vector3V}

\* the values another component writes to the world directly
ForeignValues == {NumV(1)}

\* the text after the store name in a !set message
ValueTokens == {"1", "TRUE"}

TypeHints == {"number"}

\* chat messages, as split(" ") sees them
ChatMessages ==
    {<<c>> : c \in {"!get", "!set", "!listStores", "!listStoresNow", "!deleteStores",
                    "!deleteStoresConfirm", "hello"}}
        \cup {<<c, store>> : c \in {"!get", "!set"}, store \in StoreNames}
        \cup {<<"!set", store, value>> : store \in StoreNames, value \in ValueTokens}
        \cup {<<"!set", store, value, hint>> :
                store \in StoreNames, value \in ValueTokens, hint \in TypeHints}

\* message.split(" ")[i], counting from 0
Token(message, i) == IF i + 1 <= Len(message) THEN message[i + 1] ELSE NoToken

\* message.startsWith("!listStores"): the text has no space, so the first token decides
StartsWithListStores(message) == Token(message, 0) \in {"!listStores", "!listStoresNow"}

\* Number(value) of a token: "" is 0, a digit is its number, any other token here is NaN
Number(token) ==
    IF token = "" THEN NumV(0)
    ELSE IF \E k \in 0 .. 9 : Digits[k + 1] = token
         THEN NumV(CHOOSE k \in 0 .. 9 : Digits[k + 1] = token)
         ELSE NaNV

\* value.toLowerCase() of a token
toLowerCase(token) ==
    CASE token = "TRUE" -> "true"
      [] token = "True" -> "true"
      [] OTHER -> token

(***************************************************************************)
(* State.                                                                  *)
(***************************************************************************)
VARIABLES
    registerdStores,    \* Mindkeeper.registerdStores: sequence of Store
    initialised,        \* Mindkeeper.initialised
    secondWarning,      \* Mindkeeper.secondWarning
    dynamicProperties,  \* the world's dynamic properties: key -> value or Undefined
    pending,            \* tasks queued with system.run, oldest first
    out,                \* world.sendMessage calls of the last callback
    last,               \* the last callback: the call, what it returned and what it did
    levelState,         \* the driver's state of level3: Pending, Running or Completed
    agentLocation,      \* where the agent stands
    blocks,             \* the overworld: position -> block type id, or NoBlock
    hud,                \* pupeteer: title, subtitle and action bar on screen
    check               \* the last checkCompletion call: what it returned and what it did

storeVars == <<registerdStores, initialised, secondWarning, dynamicProperties, pending>>

levelVars == <<levelState, agentLocation, blocks, hud, check>>

vars == <<storeVars, out, last, levelVars>>

Msg(kind, store, text) == [kind |-> kind, store |-> store, text |-> text]

Task(store, value) == [store |-> store, value |-> value]

\* op(store, value) or chatCommands(message); ret: the value returned; caught: a read
\* of the adapter threw and the callback caught it; thrown: an exception left the
\* callback; writes: setDynamicProperty calls made in the callback; queued: tasks
\* handed to system.run; cleared: clearDynamicProperties was called
Call(op, store, value, message, ret, caught, thrown, writes, queued, cleared) ==
    [op |-> op, store |-> store, value |-> value, message |-> message, ret |-> ret,
     caught |-> caught, thrown |-> thrown, writes |-> writes, queued |-> queued,
     cleared |-> cleared]

(***************************************************************************)
(* The persistence adapter.  A read of a key that holds no value returns   *)
(* undefined or throws, as the host decides (thr).                         *)
(***************************************************************************)
Thrown == [t |-> "thrown", s |-> "", n |-> 0, b |-> FALSE]

getDynamicProperty(world, name, thr) ==
    IF world[name] = Undefined /\ thr THEN Thrown ELSE world[name]

setDynamicProperty(world, name, value) == [world EXCEPT ![name] = value]

clearDynamicProperties(world) == [k \in DOMAIN world |-> Undefined]

(***************************************************************************)
(* Mindkeeper methods as functions of the state they read.                 *)
(***************************************************************************)
\* a lookup that gives the string type for a name the registry does not hold
FindTypeDefault(stores, store) ==
    IF \E i \in 1 .. Len(stores) : stores[i].name = store
    THEN stores[CHOOSE i \in 1 .. Len(stores) :
                    /\ stores[i].name = store
                    /\ \A j \in 1 .. (i - 1) : stores[j].name # store].type
    ELSE "string"

\* registerdStores.find((s) => s.getName() === store)?.getType()
FindType(stores, store) ==
    IF \E i \in 1 .. Len(stores) : stores[i].name = store
    THEN stores[CHOOSE i \in 1 .. Len(stores) :
                    /\ stores[i].name = store
                    /\ \A j \in 1 .. (i - 1) : stores[j].name # store].type
    ELSE "undefined"

\* a switch that initialises every store with the empty string
ZeroValueString(type) == StrV("")

\* the value registerToWorld writes for a store of each type
ZeroValue(type) ==
    CASE type = "string" -> StrV("")
      [] type = "number" -> NumV(0)
      [] type = "boolean" -> BoolV(FALSE)

\* the loop of registerToWorld from index i on (debugLog, which only printDebug
\* reads, is left out)
RECURSIVE registerToWorldLoop(_, _, _, _, _, _)
registerToWorldLoop(stores, i, world, writes, caught, thr) ==
    IF i > Len(stores) THEN [world |-> world, writes |-> writes, caught |-> caught]
    ELSE LET name == stores[i].name
             test == getDynamicProperty(world, name, name \in thr)
             isAlreadyDefined == ~(test = Undefined \/ test = Thrown)
         IN  IF isAlreadyDefined
             THEN registerToWorldLoop(stores, i + 1, world, writes, caught, thr)
             ELSE registerToWorldLoop(stores, i + 1,
                                      setDynamicProperty(world, name, ZeroValue(stores[i].type)),
                                      writes + 1, caught \/ test = Thrown, thr)

\* registerToWorld without the isAlreadyDefined test: every store gets its zero value
RECURSIVE registerToWorldOverwrites(_, _, _)
registerToWorldOverwrites(stores, world, thr) ==
    IF stores = <<>> THEN [world |-> world, writes |-> 0, caught |-> FALSE]
    ELSE LET r == registerToWorldOverwrites(Tail(stores),
                     setDynamicProperty(world, Head(stores).name, ZeroValue(Head(stores).type)), thr)
         IN  [r EXCEPT !.writes = @ + 1]

registerToWorldResult(stores, world, thr) == registerToWorldLoop(stores, 1, world, 0, FALSE, thr)

\* set without the comparison of the types
setResultUnchecked(stores, store, value) ==
    [msgs |-> <<>>, tasks |-> <<Task(store, value)>>]

\* set: the message it sends and the task it hands to system.run
setResult(stores, store, value) ==
    IF FindType(stores, store) # TypeOf(value)
    THEN [msgs |-> <<Msg("StoreNotOfType", store, TypeOf(value))>>, tasks |-> <<>>]
    ELSE [msgs |-> <<>>, tasks |-> <<Task(store, value)>>]

\* get with if (!data) in place of if (data === undefined)
getResultFalsy(world, store, thr) ==
    LET data == getDynamicProperty(world, store, thr)
    IN  IF data = Thrown
        THEN [ret |-> Undefined, msgs |-> <<>>, caught |-> TRUE, thrown |-> FALSE]
        ELSE IF data \in {Undefined, StrV(""), NumV(0), BoolV(FALSE)}
             THEN [ret |-> Undefined, msgs |-> <<Msg("StoreNotDefined", store, "")>>,
                   caught |-> FALSE, thrown |-> FALSE]
             ELSE [ret |-> data, msgs |-> <<>>, caught |-> FALSE, thrown |-> FALSE]

\* get without the try: the exception of the read leaves it
getResultNoCatch(world, store, thr) ==
    LET data == getDynamicProperty(world, store, thr)
    IN  IF data = Thrown
        THEN [ret |-> Undefined, msgs |-> <<>>, caught |-> FALSE, thrown |-> TRUE]
        ELSE IF data = Undefined
             THEN [ret |-> Undefined, msgs |-> <<Msg("StoreNotDefined", store, "")>>,
                   caught |-> FALSE, thrown |-> FALSE]
             ELSE [ret |-> data, msgs |-> <<>>, caught |-> FALSE, thrown |-> FALSE]

\* get whose catch block sends the "not defined" message too
getResultReportsCatch(world, store, thr) ==
    LET data == getDynamicProperty(world, store, thr)
    IN  IF data = Thrown \/ data = Undefined
        THEN [ret |-> Undefined, msgs |-> <<Msg("StoreNotDefined", store, "")>>,
              caught |-> data = Thrown, thrown |-> FALSE]
        ELSE [ret |-> data, msgs |-> <<>>, caught |-> FALSE, thrown |-> FALSE]

\* get: what it returns, the message it sends, whether the exception leaves it
getResult(world, store, thr) ==
    LET data == getDynamicProperty(world, store, thr)
    IN  IF data = Thrown
        THEN [ret |-> Undefined, msgs |-> <<>>, caught |-> TRUE, thrown |-> FALSE]
        ELSE IF data = Undefined
             THEN [ret |-> Undefined, msgs |-> <<Msg("StoreNotDefined", store, "")>>,
                   caught |-> FALSE, thrown |-> FALSE]
             ELSE [ret |-> data, msgs |-> <<>>, caught |-> FALSE, thrown |-> FALSE]

\* increment that writes the value read back, without the + 1
incrementResultSame(stores, world, store, thr) ==
    LET g == getResult(world, store, thr)
        s == setResult(stores, store, g.ret)
    IN  IF TypeOf(g.ret) = "number"
        THEN [msgs |-> g.msgs \o s.msgs, tasks |-> s.tasks, caught |-> g.caught, thrown |-> FALSE]
        ELSE [msgs |-> g.msgs, tasks |-> <<>>, caught |-> g.caught, thrown |-> FALSE]

\* increment that drops the message of its get when it does not write
incrementResultSilent(stores, world, store, thr) ==
    LET g == getResult(world, store, thr)
        data == g.ret
    IN  IF g.thrown THEN [msgs |-> g.msgs, tasks |-> <<>>, caught |-> g.caught, thrown |-> TRUE]
        ELSE IF TypeOf(data) = "number"
             THEN LET s == setResult(stores, store, NumV(data.n + 1))
                  IN  [msgs |-> g.msgs \o s.msgs, tasks |-> s.tasks, caught |-> g.caught,
                       thrown |-> FALSE]
             ELSE [msgs |-> <<>>, tasks |-> <<>>, caught |-> g.caught, thrown |-> FALSE]

\* increment: get, then set when the value read is a number
incrementResult(stores, world, store, thr) ==
    LET g == getResult(world, store, thr)
        data == g.ret
    IN  IF g.thrown THEN [msgs |-> g.msgs, tasks |-> <<>>, caught |-> g.caught, thrown |-> TRUE]
        ELSE IF TypeOf(data) = "number"
             THEN LET s == setResult(stores, store, NumV(data.n + 1))
                  IN  [msgs |-> g.msgs \o s.msgs, tasks |-> s.tasks, caught |-> g.caught,
                       thrown |-> FALSE]
             ELSE [msgs |-> g.msgs, tasks |-> <<>>, caught |-> g.caught, thrown |-> FALSE]

(***************************************************************************)
(* chatCommands, block by block.  A block takes the effects so far (r) and *)
(* gives the effects after it; returned is set by a return statement.      *)
(***************************************************************************)
NoEffects(sw, world) ==
    [msgs |-> <<>>, tasks |-> <<>>, secondWarning |-> sw, world |-> world,
     cleared |-> FALSE, caught |-> FALSE, thrown |-> FALSE, returned |-> FALSE]

\* if (command === "!get")
chatGet(r, message, thr) ==
    IF r.returned \/ Token(message, 0) # "!get" THEN r
    ELSE LET store == Token(message, 1)
             g == getResult(r.world, store, thr)
         IN  IF g.thrown
             THEN [r EXCEPT !.msgs = @ \o g.msgs, !.caught = g.caught, !.thrown = TRUE,
                            !.returned = TRUE]
             ELSE [r EXCEPT !.msgs = @ \o g.msgs \o <<Msg("ValueOf", store, ToStr(g.ret))>>,
                            !.caught = g.caught]

\* the switch of the !set block
chatSetSwitch(r, stores, store, value, actualType) ==
    CASE actualType = "string" ->
            LET s == setResult(stores, store, StrV(value))
            IN  [r EXCEPT !.msgs = @ \o s.msgs, !.tasks = @ \o s.tasks]
      [] actualType = "number" ->
            IF IsNaN(Number(value))
            THEN [r EXCEPT !.msgs = @ \o <<Msg("CantParse", store, value)>>, !.returned = TRUE]
            ELSE LET s == setResult(stores, store, Number(value))
                 IN  [r EXCEPT !.msgs = @ \o s.msgs, !.tasks = @ \o s.tasks]
      [] actualType = "boolean" ->
            LET ActualValue == toLowerCase(value)
                s == setResult(stores, store, BoolV(ActualValue = "true"))
            IN  [r EXCEPT !.msgs = @ \o s.msgs, !.tasks = @ \o s.tasks]

\* the !set block taking the type of the fourth token when the message has one
chatSetUsesHint(r, stores, message) ==
    IF r.returned \/ Token(message, 0) # "!set" THEN r
    ELSE LET store == Token(message, 1)
             value == Token(message, 2)
             type == Token(message, 3)
             actualType == IF type = NoToken THEN FindType(stores, store) ELSE type
         IN  IF store = NoToken
             THEN [r EXCEPT !.msgs = @ \o <<Msg("ProvideStore", NoToken, "")>>, !.returned = TRUE]
             ELSE IF value = NoToken
             THEN [r EXCEPT !.msgs = @ \o <<Msg("ProvideValue", store, "")>>, !.returned = TRUE]
             ELSE IF FindType(stores, store) = "undefined"
             THEN [r EXCEPT !.msgs = @ \o <<Msg("StoreNotDefined", store, "")>>, !.returned = TRUE]
             ELSE LET sw == chatSetSwitch(r, stores, store, value, actualType)
                  IN  IF sw.returned THEN sw
                      ELSE [sw EXCEPT !.msgs = @ \o <<Msg("ValueOf", store, value)>>]

\* if (command === "!set")
chatSet(r, stores, message) ==
    IF r.returned \/ Token(message, 0) # "!set" THEN r
    ELSE LET store == Token(message, 1)
             value == Token(message, 2)
             actualType == FindType(stores, store)
         IN  IF store = NoToken
             THEN [r EXCEPT !.msgs = @ \o <<Msg("ProvideStore", NoToken, "")>>, !.returned = TRUE]
             ELSE IF value = NoToken
             THEN [r EXCEPT !.msgs = @ \o <<Msg("ProvideValue", store, "")>>, !.returned = TRUE]
             ELSE IF actualType = "undefined"
             THEN [r EXCEPT !.msgs = @ \o <<Msg("StoreNotDefined", store, "")>>, !.returned = TRUE]
             ELSE LET sw == chatSetSwitch(r, stores, store, value, actualType)
                  IN  IF sw.returned THEN sw
                      ELSE [sw EXCEPT !.msgs = @ \o <<Msg("ValueOf", store, value)>>]

\* if (event.message.startsWith("!listStores"))
chatListStores(r, stores, message) ==
    IF r.returned \/ ~StartsWithListStores(message) THEN r
    ELSE [r EXCEPT !.msgs = @ \o [i \in 1 .. Len(stores) |-> Msg("Is", stores[i].name, stores[i].type)]]

\* if (command === "!deleteStores")
chatDeleteStores(r, message) ==
    IF r.returned \/ Token(message, 0) # "!deleteStores" THEN r
    ELSE [r EXCEPT !.msgs = @ \o <<Msg("AreYouSure", NoToken, ""), Msg("IfYouAreSure", NoToken, "")>>,
                   !.secondWarning = TRUE]

\* the confirmation without the test of secondWarning
chatDeleteStoresConfirmUnguarded(r, stores, message) ==
    IF r.returned \/ Token(message, 0) # "!deleteStoresConfirm" THEN r
    ELSE [r EXCEPT !.msgs = @ \o [i \in 1 .. Len(stores) |-> Msg("Deleting", stores[i].name, "")],
                   !.world = clearDynamicProperties(@),
                   !.cleared = TRUE,
                   !.secondWarning = FALSE]

\* if (this.secondWarning) { if (command === "!deleteStoresConfirm")
chatDeleteStoresConfirm(r, stores, message) ==
    IF r.returned \/ ~r.secondWarning THEN r
    ELSE IF Token(message, 0) # "!deleteStoresConfirm" THEN r
    ELSE [r EXCEPT !.msgs = @ \o [i \in 1 .. Len(stores) |-> Msg("Deleting", stores[i].name, "")],
                   !.world = clearDynamicProperties(@),
                   !.cleared = TRUE,
                   !.secondWarning = FALSE]

\* a handler that disarms the deletion when any other message arrives
chatCommandsResultExpiring(stores, world, sw, message, thr) ==
    LET r0 == NoEffects(sw, world)
        r1 == chatGet(r0, message, thr)
        r2 == chatSet(r1, stores, message)
        r3 == chatListStores(r2, stores, message)
        r4 == chatDeleteStores(r3, message)
        r5 == chatDeleteStoresConfirm(r4, stores, message)
    IN  IF Token(message, 0) \in {"!deleteStores", "!deleteStoresConfirm"} THEN r5
        ELSE [r5 EXCEPT !.secondWarning = FALSE]

\* async chatCommands(event: ChatSendAfterEvent)
chatCommandsResult(stores, world, sw, message, thr) ==
    LET r0 == NoEffects(sw, world)
        r1 == chatGet(r0, message, thr)
        r2 == chatSet(r1, stores, message)
        r3 == chatListStores(r2, stores, message)
        r4 == chatDeleteStores(r3, message)
    IN  chatDeleteStoresConfirm(r4, stores, message)


(***************************************************************************)
(* Level 3: the world it reads and the services it calls.                  *)
(***************************************************************************)
vector3(x, y, z) == <<x, y, z>>

Vector3Add(a, b) == <<a[1] + b[1], a[2] + b[2], a[3] + b[3]>>

Level3CommandBlockPos == vector3(58, 66, 279)
level3StartPosition == vector3(56, 69, 235)
Level3EndPosition == vector3(72, 70, 235)
level3ResetCommandBlockPos == vector3(54, 68, 242)

MinecraftBlockTypes ==
    [Water |-> "minecraft:water", RedstoneBlock |-> "minecraft:redstone_block",
     Air |-> "minecraft:air", Stone |-> "minecraft:stone", Dirt |-> "minecraft:dirt"]

\* getBlock(position) of a place that is not loaded gives undefined
NoBlock == "<undefined>"

\* the condition list of the level: two block checks
level3Conditions ==
    [conditions |-> <<[position |-> vector3(60, 69, 236), block |-> MinecraftBlockTypes.Stone],
                      [position |-> vector3(68, 69, 236), block |-> MinecraftBlockTypes.Dirt]>>]

\* a place on the way from the start to the end
Midway == vector3(64, 69, 235)

AgentLocations == {level3StartPosition, Midway, Level3EndPosition}

BlockUnder(location) == Vector3Add(location, vector3(0, -1, 0))

BlockPositions ==
    {level3Conditions.conditions[i].position : i \in 1 .. Len(level3Conditions.conditions)}
        \cup {BlockUnder(l) : l \in AgentLocations}
        \cup {Level3CommandBlockPos, level3ResetCommandBlockPos}

\* what the player and the world change between ticks
WorldEdits ==
    {<<level3Conditions.conditions[1].position, b>> :
        b \in {MinecraftBlockTypes.Stone, MinecraftBlockTypes.Air, NoBlock}}
        \cup {<<level3Conditions.conditions[2].position, b>> :
                b \in {MinecraftBlockTypes.Dirt, MinecraftBlockTypes.Air}}
        \cup {<<BlockUnder(l), b>> :
                l \in {Midway, Level3EndPosition},
                b \in {MinecraftBlockTypes.Water, MinecraftBlockTypes.Stone}}
        \cup {<<level3ResetCommandBlockPos, MinecraftBlockTypes.Air>>}

\* world.getDimension(..).getBlock(position)?.type.id
getBlockTypeId(world, position) == world[position]

\* fillBlocks(new BlockVolume(position, position), block)
fillBlocks(world, position, block) == [world EXCEPT ![position] = block]

\* levelUtils.startLevel
startLevel(world, commandBlockPos) == fillBlocks(world, commandBlockPos, MinecraftBlockTypes.RedstoneBlock)

\* agentUtils
teleportAgent(location, position) == position

isAgentAt(location, position) == location = position

getAgentLocation(location) == location

\* pupeteer
Hud(title, subtitle, actionBar) == [title |-> title, subtitle |-> subtitle, actionBar |-> actionBar]

setTitleTimed(h, text) == [h EXCEPT !.title = text]

updateSubtitle(h, text) == [h EXCEPT !.subtitle = text]

setActionBar(h, text) == [h EXCEPT !.actionBar = text]

clearActionBar(h) == [h EXCEPT !.actionBar = ""]

(***************************************************************************)
(* The four callbacks of level3.                                           *)
(***************************************************************************)
\* what a callback returns and what it leaves behind
Effects(ret, location, world, h, teleports, fills, titles) ==
    [ret |-> ret, agentLocation |-> location, blocks |-> world, hud |-> h,
     teleports |-> teleports, fills |-> fills, titles |-> titles]

level3OnStart(location, world, h) ==
    Effects(Undefined,
            teleportAgent(location, level3StartPosition),
            startLevel(world, Level3CommandBlockPos),
            setTitleTimed(h, "%message.level3.name"),
            1, <<<<Level3CommandBlockPos, MinecraftBlockTypes.RedstoneBlock>>>>, 1)

level3OnTick(h) == setActionBar(h, "%message.level3.make")

level3OnComplete(h) == setTitleTimed(clearActionBar(h), "%message.level3.complete")

\* the forEach over the conditions: isComplete after it
RECURSIVE conditionsHold(_, _, _)
conditionsHold(world, conditions, i) ==
    IF i > Len(conditions) THEN TRUE
    ELSE IF conditions[i].block # getBlockTypeId(world, conditions[i].position)
         THEN FALSE /\ conditionsHold(world, conditions, i + 1)
         ELSE conditionsHold(world, conditions, i + 1)

\* if (isOutOfBounds) { ... return false; }
level3OutOfBounds(location, world, h) ==
    Effects(BoolV(FALSE),
            teleportAgent(location, level3StartPosition),
            world,
            updateSubtitle(setTitleTimed(h, "%message.level.outofbounds"),
                           "%message.level.outofbounds.subtext"),
            1, <<>>, 1)

\* if (isAgentAt(Level3EndPosition)) { ... }, and the end of the function after it
level3Incorrect(location, world, h) ==
    Effects(Undefined,
            teleportAgent(location, level3StartPosition),
            fillBlocks(world, level3ResetCommandBlockPos, MinecraftBlockTypes.RedstoneBlock),
            updateSubtitle(setTitleTimed(h, "%message.level.incorrect"),
                           "%message.level.incorrect.subtext"),
            1, <<<<level3ResetCommandBlockPos, MinecraftBlockTypes.RedstoneBlock>>>>, 1)

level3IsOutOfBounds(location, world) ==
    LET agentLocationNow == getAgentLocation(location)
        blockUnderAgent == getBlockTypeId(world, Vector3Add(agentLocationNow, vector3(0, -1, 0)))
    IN  blockUnderAgent = MinecraftBlockTypes.Water

\* checkCompletion with if (isComplete) in place of if (isComplete && !isOutOfBounds)
level3CheckCompletionNoBounds(location, world, h) ==
    IF conditionsHold(world, level3Conditions.conditions, 1)
    THEN Effects(BoolV(TRUE), location, world, h, 0, <<>>, 0)
    ELSE IF level3IsOutOfBounds(location, world) THEN level3OutOfBounds(location, world, h)
    ELSE IF isAgentAt(location, Level3EndPosition) THEN level3Incorrect(location, world, h)
    ELSE Effects(Undefined, location, world, h, 0, <<>>, 0)

\* checkCompletion with the test of the end position before the test of isOutOfBounds
level3CheckCompletionEndFirst(location, world, h) ==
    IF conditionsHold(world, level3Conditions.conditions, 1) /\ ~level3IsOutOfBounds(location, world)
    THEN Effects(BoolV(TRUE), location, world, h, 0, <<>>, 0)
    ELSE IF isAgentAt(location, Level3EndPosition) THEN level3Incorrect(location, world, h)
    ELSE IF level3IsOutOfBounds(location, world) THEN level3OutOfBounds(location, world, h)
    ELSE Effects(Undefined, location, world, h, 0, <<>>, 0)

\* checkCompletion whose last branch tests the start position, not the end position
level3CheckCompletionWrongEnd(location, world, h) ==
    IF conditionsHold(world, level3Conditions.conditions, 1) /\ ~level3IsOutOfBounds(location, world)
    THEN Effects(BoolV(TRUE), location, world, h, 0, <<>>, 0)
    ELSE IF level3IsOutOfBounds(location, world) THEN level3OutOfBounds(location, world, h)
    ELSE IF isAgentAt(location, level3StartPosition) THEN level3Incorrect(location, world, h)
    ELSE Effects(Undefined, location, world, h, 0, <<>>, 0)

\* checkCompletion whose out-of-bounds block does not return
level3CheckCompletionFallsThrough(location, world, h) ==
    LET isOutOfBounds == level3IsOutOfBounds(location, world)
        isComplete == conditionsHold(world, level3Conditions.conditions, 1)
        o == IF isOutOfBounds THEN level3OutOfBounds(location, world, h)
             ELSE Effects(Undefined, location, world, h, 0, <<>>, 0)
    IN  IF isComplete /\ ~isOutOfBounds
        THEN Effects(BoolV(TRUE), location, world, h, 0, <<>>, 0)
        ELSE IF isAgentAt(location, Level3EndPosition)
        THEN LET e == level3Incorrect(location, world, o.hud)
             IN  Effects(Undefined, e.agentLocation, e.blocks, e.hud,
                         o.teleports + e.teleports, e.fills, o.titles + e.titles)
        ELSE Effects(Undefined, o.agentLocation, o.blocks, o.hud, o.teleports, o.fills, o.titles)

level3CheckCompletion(location, world, h) ==
    LET isOutOfBounds == level3IsOutOfBounds(location, world)
        isComplete == conditionsHold(world, level3Conditions.conditions, 1)
    IN  IF isComplete /\ ~isOutOfBounds
        THEN Effects(BoolV(TRUE), location, world, h, 0, <<>>, 0)
        ELSE IF isOutOfBounds
        THEN level3OutOfBounds(location, world, h)
        ELSE IF isAgentAt(location, Level3EndPosition)
        THEN level3Incorrect(location, world, h)
        ELSE Effects(Undefined, location, world, h, 0, <<>>, 0)

(***************************************************************************)
(* Initial state: a Mindkeeper just constructed on a world that holds no   *)
(* dynamic property, and level3 not yet started.                           *)
(***************************************************************************)
\* check: the call's result and effects, and what held when it was called: every
\* condition matched (complete), the agent stood on water (water), the agent was at
\* the end position (atEnd)
NoCheck == [called |-> FALSE, ret |-> Undefined, agent |-> Midway, teleports |-> 0,
            fills |-> <<>>, titles |-> 0, complete |-> FALSE, water |-> FALSE, atEnd |-> FALSE]

Init ==
    /\ registerdStores = <<>>
    /\ initialised = FALSE
    /\ secondWarning = FALSE
    /\ dynamicProperties = [k \in AllNames |-> Undefined]
    /\ pending = <<>>
    /\ out = <<>>
    /\ last = Call("new", NoToken, Undefined, <<>>, Undefined, FALSE, FALSE, 0, <<>>, FALSE)
    /\ levelState = "Pending"
    /\ agentLocation = Midway
    /\ blocks = [p \in BlockPositions |-> MinecraftBlockTypes.Air]
    /\ hud = Hud("", "", "")
    /\ check = NoCheck

(***************************************************************************)
(* Callbacks.                                                              *)
(***************************************************************************)
\* the tasks of the queue applied in order: the world once they have all run
RECURSIVE Flushed(_, _)
Flushed(world, queue) ==
    IF queue = <<>> THEN world
    ELSE Flushed(setDynamicProperty(world, Head(queue).store, Head(queue).value), Tail(queue))

\* the registry holds a descriptor of the name
HasDescriptor(store) == \E i \in 1 .. Len(registerdStores) : registerdStores[i].name = store

\* the queue and the numbers stay within the bounds of the model
FitsIn(tasks, max) ==
    /\ Len(pending) + Len(tasks) <= max
    /\ \A i \in 1 .. Len(tasks) : tasks[i].value.t = "number" => tasks[i].value.n <= MaxNum

Fits(tasks) == FitsIn(tasks, MaxPending)

\* registerStore with unshift in place of push
registerStoreFront(store, type) ==
    /\ Len(registerdStores) < MaxStores
    /\ registerdStores' = <<Store(type, store)>> \o registerdStores
    /\ out' = <<>>
    /\ last' = Call("registerStore", store, StrV(type), <<>>, Undefined, FALSE, FALSE, 0, <<>>, FALSE)
    /\ UNCHANGED <<initialised, secondWarning, dynamicProperties, pending>>
    /\ UNCHANGED levelVars

registerStore(store, type) ==
    /\ Len(registerdStores) < MaxStores
    /\ registerdStores' = Append(registerdStores, Store(type, store))
    /\ out' = <<>>
    /\ last' = Call("registerStore", store, StrV(type), <<>>, Undefined, FALSE, FALSE, 0, <<>>, FALSE)
    /\ UNCHANGED <<initialised, secondWarning, dynamicProperties, pending>>
    /\ UNCHANGED levelVars

registerToWorld(thr) ==
    \E r \in {registerToWorldResult(registerdStores, dynamicProperties, thr)} :
        /\ dynamicProperties' = r.world
        /\ initialised' = TRUE
        /\ out' = <<>>
        /\ last' = Call("registerToWorld", NoToken, Undefined, <<>>, Undefined, r.caught, FALSE, r.writes, <<>>, FALSE)
        /\ UNCHANGED <<registerdStores, secondWarning, pending>>
        /\ UNCHANGED levelVars

\* set that writes at once, without system.run
setSynchronous(store, value) ==
    \E r \in {setResult(registerdStores, store, value)} :
        /\ dynamicProperties' =
                IF r.tasks = <<>> THEN dynamicProperties
                ELSE setDynamicProperty(dynamicProperties, store, value)
        /\ out' = r.msgs
        /\ last' = Call("set", store, value, <<>>, Undefined, FALSE, FALSE, 0, r.tasks, FALSE)
        /\ UNCHANGED <<registerdStores, initialised, secondWarning, pending>>
        /\ UNCHANGED levelVars

set(store, value) ==
    \E r \in {setResult(registerdStores, store, value)} :
        /\ Fits(r.tasks)
        /\ pending' = pending \o r.tasks
        /\ out' = r.msgs
        /\ last' = Call("set", store, value, <<>>, Undefined, FALSE, FALSE, 0, r.tasks, FALSE)
        /\ UNCHANGED <<registerdStores, initialised, secondWarning, dynamicProperties>>
        /\ UNCHANGED levelVars

get(store, thr) ==
    \E r \in {getResult(dynamicProperties, store, thr)} :
        /\ out' = r.msgs
        /\ last' = Call("get", store, Undefined, <<>>, r.ret, r.caught, r.thrown, 0, <<>>, FALSE)
        /\ UNCHANGED <<registerdStores, initialised, secondWarning, dynamicProperties, pending>>
        /\ UNCHANGED levelVars

\* increment reading the value the world has once the queued writes have run
incrementSeesQueue(store, thr) ==
    \E r \in {incrementResult(registerdStores, Flushed(dynamicProperties, pending), store, thr)} :
        /\ Fits(r.tasks)
        /\ pending' = pending \o r.tasks
        /\ out' = r.msgs
        /\ last' = Call("increment", store, Undefined, <<>>, Undefined, r.caught, r.thrown, 0, r.tasks, FALSE)
        /\ UNCHANGED <<registerdStores, initialised, secondWarning, dynamicProperties>>
        /\ UNCHANGED levelVars

increment(store, thr) ==
    \E r \in {incrementResult(registerdStores, dynamicProperties, store, thr)} :
        /\ Fits(r.tasks)
        /\ pending' = pending \o r.tasks
        /\ out' = r.msgs
        /\ last' = Call("increment", store, Undefined, <<>>, Undefined, r.caught, r.thrown, 0, r.tasks, FALSE)
        /\ UNCHANGED <<registerdStores, initialised, secondWarning, dynamicProperties>>
        /\ UNCHANGED levelVars

\* chatCommands whose deletion also drops the writes that are queued
chatCommandsCancelling(message, thr) ==
    \E r \in {chatCommandsResult(registerdStores, dynamicProperties, secondWarning, message, thr)} :
        /\ FitsIn(r.tasks, IF r.tasks = <<>> THEN MaxPending ELSE MaxChatPending)
        /\ pending' = IF r.cleared THEN <<>> ELSE pending \o r.tasks
        /\ dynamicProperties' = r.world
        /\ secondWarning' = r.secondWarning
        /\ out' = r.msgs
        /\ last' = Call("chatCommands", NoToken, Undefined, message, Undefined, r.caught, r.thrown, 0, r.tasks, r.cleared)
        /\ UNCHANGED <<registerdStores, initialised>>
        /\ UNCHANGED levelVars

chatCommands(message, thr) ==
    \E r \in {chatCommandsResult(registerdStores, dynamicProperties, secondWarning, message, thr)} :
        /\ FitsIn(r.tasks, IF r.tasks = <<>> THEN MaxPending ELSE MaxChatPending)
        /\ pending' = pending \o r.tasks
        /\ dynamicProperties' = r.world
        /\ secondWarning' = r.secondWarning
        /\ out' = r.msgs
        /\ last' = Call("chatCommands", NoToken, Undefined, message, Undefined, r.caught, r.thrown, 0, r.tasks, r.cleared)
        /\ UNCHANGED <<registerdStores, initialised>>
        /\ UNCHANGED levelVars

\* the host runs the oldest task queued with system.run: () => setDynamicProperty(store, value)
runDeferred ==
    /\ pending # <<>>
    /\ dynamicProperties' = setDynamicProperty(dynamicProperties, Head(pending).store, Head(pending).value)
    /\ pending' = Tail(pending)
    /\ out' = <<>>
    /\ last' = Call("system.run", Head(pending).store, Head(pending).value, <<>>, Undefined, FALSE, FALSE, 1, <<>>, FALSE)
    /\ UNCHANGED <<registerdStores, initialised, secondWarning>>
    /\ UNCHANGED levelVars

\* another component writes a dynamic property of the world directly
foreignWrite(name, value) ==
    /\ dynamicProperties' = setDynamicProperty(dynamicProperties, name, value)
    /\ out' = <<>>
    /\ last' = Call("foreignWrite", name, value, <<>>, Undefined, FALSE, FALSE, 1, <<>>, FALSE)
    /\ UNCHANGED <<registerdStores, initialised, secondWarning, pending>>
    /\ UNCHANGED levelVars

(***************************************************************************)
(* The level driver and the player.                                        *)
(***************************************************************************)
\* what holds of the world when checkCompletion is called
AllConditionsMatch(world) ==
    \A c \in {level3Conditions.conditions[i] : i \in 1 .. Len(level3Conditions.conditions)} :
        world[c.position] = c.block

AgentOnWater(location, world) == world[BlockUnder(location)] = "minecraft:water"

\* Pending -> Running: the driver calls onStart once
levelStart ==
    /\ levelState = "Pending"
    /\ \E r \in {level3OnStart(agentLocation, blocks, hud)} :
        /\ agentLocation' = r.agentLocation
        /\ blocks' = r.blocks
        /\ hud' = r.hud
    /\ levelState' = "Running"
    /\ out' = <<Msg("%message.level3.started", NoToken, "")>>
    /\ last' = Call("onStart", NoToken, Undefined, <<>>, Undefined, FALSE, FALSE, 0, <<>>, FALSE)
    /\ UNCHANGED <<storeVars, check>>

\* a tick of a running level: onTick, then checkCompletion, and onComplete when it gave true
levelTick(thr) ==
    /\ levelState = "Running"
    /\ \E r \in {level3CheckCompletion(agentLocation, blocks, level3OnTick(hud))},
          i \in {incrementResult(registerdStores, dynamicProperties, CURRENT_LEVEL, thr)} :
        /\ agentLocation' = r.agentLocation
        /\ blocks' = r.blocks
        /\ check' = [called |-> TRUE, ret |-> r.ret, agent |-> r.agentLocation,
                     teleports |-> r.teleports, fills |-> r.fills, titles |-> r.titles,
                     complete |-> AllConditionsMatch(blocks),
                     water |-> AgentOnWater(agentLocation, blocks),
                     atEnd |-> agentLocation = Level3EndPosition]
        /\ IF r.ret = BoolV(TRUE)
           THEN /\ Fits(i.tasks)
                /\ hud' = level3OnComplete(r.hud)
                /\ levelState' = "Completed"
                /\ pending' = pending \o i.tasks
                /\ out' = <<Msg("%message.level3.complete", NoToken, "")>> \o i.msgs
                /\ last' = Call("onComplete", NoToken, Undefined, <<>>, Undefined, i.caught, i.thrown, 0, i.tasks, FALSE)
           ELSE /\ hud' = r.hud
                /\ levelState' = "Running"
                /\ pending' = pending
                /\ out' = <<>>
                /\ last' = Call("onTick", NoToken, Undefined, <<>>, Undefined, FALSE, FALSE, 0, <<>>, FALSE)
    /\ UNCHANGED <<registerdStores, initialised, secondWarning, dynamicProperties>>

\* the player's program moves the agent
agentMoves(location) ==
    /\ levelState = "Running"
    /\ agentLocation # location
    /\ agentLocation' = location
    /\ UNCHANGED <<storeVars, out, last, levelState, blocks, hud, check>>

\* a block of the world changes
blockChanges(position, block) ==
    /\ levelState = "Running"
    /\ blocks[position] # block
    /\ blocks' = [blocks EXCEPT ![position] = block]
    /\ UNCHANGED <<storeVars, out, last, levelState, agentLocation, hud, check>>

\* the store driven through its methods
Next ==
    \/ \E r \in Registrations : registerStore(r.name, r.type)
    \/ \E thr \in SUBSET StoreNames : registerToWorld(thr)
    \/ \E store \in StoreNames, value \in SetValues : set(store, value)
    \/ \E store \in StoreNames, thr \in BOOLEAN : get(store, thr)
    \/ \E store \in StoreNames, thr \in BOOLEAN : increment(store, thr)
    \/ runDeferred
    \/ \E name \in StoreNames, value \in ForeignValues : foreignWrite(name, value)

Spec == Init /\ [][Next]_vars

\* the store driven through the chat console
NextChat ==
    \/ \E r \in Registrations : registerStore(r.name, r.type)
    \/ \E thr \in SUBSET StoreNames : registerToWorld(thr)
    \/ \E message \in ChatMessages :
        \E thr \in (IF Token(message, 0) = "!get" THEN BOOLEAN ELSE {FALSE}) :
            chatCommands(message, thr)
    \/ runDeferred
    \/ \E name \in StoreNames : foreignWrite(name, StrV("1"))

SpecChat == Init /\ [][NextChat]_vars

\* level3 under its driver, with the store its onComplete increments
NextLevel ==
    \/ registerStore(CURRENT_LEVEL, "number")
    \/ registerToWorld({})
    \/ runDeferred
    \/ levelStart
    \/ \E thr \in BOOLEAN : levelTick(thr)
    \/ \E location \in AgentLocations : agentMoves(location)
    \/ \E e \in WorldEdits : blockChanges(e[1], e[2])

SpecLevel == Init /\ [][NextLevel]_vars

\* the store with names registered once and no write from another component, driven
\* through its methods and through the !set and !deleteStores messages
WriteMessages ==
    {<<"!deleteStores">>, <<"!deleteStoresConfirm">>}
        \cup {<<"!set", store, value>> : store \in StoreNames, value \in ValueTokens}

NextTyped ==
    \/ \E r \in Registrations : ~HasDescriptor(r.name) /\ registerStore(r.name, r.type)
    \/ \E thr \in SUBSET StoreNames : registerToWorld(thr)
    \/ \E store \in StoreNames, value \in SetValues : set(store, value)
    \/ \E store \in StoreNames, thr \in BOOLEAN : increment(store, thr)
    \/ \E message \in WriteMessages : chatCommands(message, FALSE)
    \/ runDeferred

SpecTyped == Init /\ [][NextTyped]_vars

(***************************************************************************)
(* Properties of the typed store.                                          *)
(***************************************************************************)
Registered(store) == FindType(registerdStores, store) \in StoreType

ZeroValues == {StrV(""), NumV(0), BoolV(FALSE)}

\* the names of the registry that hold no value
NotYetDefined == {registerdStores[i].name : i \in 1 .. Len(registerdStores)}
                    \cap {k \in AllNames : dynamicProperties[k] = Undefined}

\* C1: a set(store, v) on a registered store, whose registered type is T, never writes
\* in its own callback; it queues exactly the write of v when typeof v = T; when the
\* types differ it queues nothing, and the world once every queued write has run is
\* the world that would have been without the call.
C1_SetTypeSafety ==
    [][(last'.op = "set" /\ Registered(last'.store)) =>
        LET T == FindType(registerdStores, last'.store)
            v == last'.value
        IN  /\ dynamicProperties' = dynamicProperties
            /\ (TypeOf(v) = T) <=> (pending' = Append(pending, Task(last'.store, v)))
            /\ (TypeOf(v) # T) <=> (pending' = pending)
            /\ TypeOf(v) # T =>
                    /\ Flushed(dynamicProperties', pending') = Flushed(dynamicProperties, pending)
                    /\ out' = <<Msg("StoreNotOfType", last'.store, TypeOf(v))>>]_vars

\* a set of a value of the wrong type on a registered store that holds a value
C1_Witness ==
    /\ last.op = "set"
    /\ Registered(last.store)
    /\ TypeOf(last.value) # FindType(registerdStores, last.store)
    /\ dynamicProperties[last.store] # Undefined
    /\ last.queued = <<>>

\* C2: a registerToWorld pass leaves every key that holds a value as it is, gives
\* every registered name that holds none the zero value of its registered type, with
\* one write for each such name, and a pass that follows a pass writes nothing.
C2_RegisterIdempotent ==
    [][last'.op = "registerToWorld" =>
        /\ \A k \in AllNames :
                dynamicProperties[k] # Undefined => dynamicProperties'[k] = dynamicProperties[k]
        /\ \A k \in NotYetDefined :
                dynamicProperties'[k] = ZeroValue(FindType(registerdStores, k))
        /\ \A k \in AllNames \ NotYetDefined : dynamicProperties'[k] = dynamicProperties[k]
        /\ last'.writes = Cardinality(NotYetDefined)
        /\ initialised'
        /\ last.op = "registerToWorld" => (last'.writes = 0 /\ dynamicProperties' = dynamicProperties)
        /\ \A thr \in SUBSET StoreNames :
                registerToWorldResult(registerdStores', dynamicProperties', thr).writes = 0]_vars

\* a pass that has written one store and kept the value, not a zero value, of another
C2_Witness ==
    /\ last.op = "registerToWorld"
    /\ last.writes = 1
    /\ \E i \in 1 .. Len(registerdStores) :
            dynamicProperties[registerdStores[i].name] \notin ZeroValues \cup {Undefined}

\* C3: a set that is accepted leaves the world as it is in its own callback; a get
\* returns the value the world holds, whatever is queued; and the task, when it runs,
\* writes its value, which a get then returns.
C3_DeferredWrite ==
    [][/\ (last'.op = "set" /\ last'.queued # <<>>) =>
                /\ dynamicProperties' = dynamicProperties
                /\ pending' = Append(pending, Task(last'.store, last'.value))
                /\ \A thr \in BOOLEAN :
                        getResult(dynamicProperties', last'.store, thr).ret = dynamicProperties[last'.store]
       /\ last'.op = "get" => last'.ret = dynamicProperties[last'.store]
       /\ last'.op = "system.run" =>
                /\ pending # <<>>
                /\ last'.store = Head(pending).store /\ last'.value = Head(pending).value
                /\ pending' = Tail(pending)
                /\ dynamicProperties' = [dynamicProperties EXCEPT ![last'.store] = last'.value]
                /\ \A thr \in BOOLEAN :
                        getResult(dynamicProperties', last'.store, thr).ret = last'.value]_vars

\* a get that returned the old value of a store while another value was queued for it
C3_Witness ==
    /\ last.op = "get"
    /\ last.ret # Undefined
    /\ \E i \in 1 .. Len(pending) :
            pending[i].store = last.store /\ pending[i].value # last.ret

\* C4: increment of a store registered as number that holds the number k queues the
\* write of k + 1, so that the store holds k + 1 once the queue has run; increment of
\* a store that holds no number queues nothing and leaves the world as it is.
C4_Increment ==
    [][last'.op = "increment" =>
        LET store == last'.store
            old == dynamicProperties[store]
        IN  /\ dynamicProperties' = dynamicProperties
            /\ (TypeOf(old) = "number" /\ FindType(registerdStores, store) = "number") =>
                    /\ pending' = Append(pending, Task(store, NumV(old.n + 1)))
                    /\ Flushed(dynamicProperties', pending')[store] = NumV(old.n + 1)
            /\ TypeOf(old) # "number" => pending' = pending]_vars

\* the increment of a store that registerToWorld has set to 0: the write of 1 is queued
C4_Witness ==
    /\ last.op = "increment"
    /\ dynamicProperties[last.store] = NumV(0)
    /\ last.queued = <<Task(last.store, NumV(1))>>
    /\ initialised

\* C5: a chat message clears the dynamic properties only when it is
\* !deleteStoresConfirm and the flag is armed; then every key is undefined and the
\* flag is disarmed. Only !deleteStores arms the flag and only a clear disarms it.
\* An unarmed !deleteStoresConfirm changes nothing.
C5_ConfirmationGating ==
    [][/\ dynamicProperties' = clearDynamicProperties(dynamicProperties) /\ dynamicProperties' # dynamicProperties
            => (last'.op = "chatCommands" /\ last'.cleared)
       /\ (last'.op = "chatCommands" /\ last'.cleared) =>
                /\ secondWarning
                /\ Token(last'.message, 0) = "!deleteStoresConfirm"
                /\ \A k \in AllNames : dynamicProperties'[k] = Undefined
                /\ ~secondWarning'
       /\ (last'.op = "chatCommands" /\ Token(last'.message, 0) = "!deleteStoresConfirm") =>
                /\ last'.cleared <=> secondWarning
                /\ ~secondWarning => (dynamicProperties' = dynamicProperties /\ pending' = pending)
                /\ ~secondWarning'
       /\ (~secondWarning /\ secondWarning') =>
                (last'.op = "chatCommands" /\ Token(last'.message, 0) = "!deleteStores")
       /\ (secondWarning /\ ~secondWarning') => (last'.op = "chatCommands" /\ last'.cleared)]_vars

\* an honoured confirmation, with a store registered
C5_Witness ==
    /\ last.op = "chatCommands"
    /\ last.cleared
    /\ ~secondWarning
    /\ registerdStores # <<>>

\* C6: get of a key that holds no value returns undefined; get of a key that holds
\* "", 0 or false returns that value.
C6_AbsenceVersusZero ==
    last.op = "get" =>
        /\ dynamicProperties[last.store] = Undefined => last.ret = Undefined
        /\ dynamicProperties[last.store] \in ZeroValues =>
                (last.ret = dynamicProperties[last.store] /\ last.ret # Undefined /\ out = <<>>)

\* a get that returned the empty string
C6_Witness ==
    /\ last.op = "get"
    /\ dynamicProperties[last.store] = StrV("")
    /\ last.ret = StrV("")

\* C7 as stated: a get of a key that holds no value returns undefined, sends the
\* "not defined" message and lets no exception out, whether the read returned
\* undefined or threw.
C7_Original ==
    (last.op = "get" /\ dynamicProperties[last.store] = Undefined) =>
        /\ last.ret = Undefined
        /\ out = <<Msg("StoreNotDefined", last.store, "")>>
        /\ ~last.thrown

\* C7 amended: a get of a key that holds no value returns undefined and lets no
\* exception out; it sends the "not defined" message when the read returned
\* undefined and sends nothing when the read threw.
C7_GetAbsent ==
    (last.op = "get" /\ dynamicProperties[last.store] = Undefined) =>
        /\ last.ret = Undefined
        /\ ~last.thrown
        /\ ~last.caught => out = <<Msg("StoreNotDefined", last.store, "")>>
        /\ last.caught => out = <<>>

\* a get whose read threw: undefined returned, no message
C7_Witness ==
    /\ last.op = "get"
    /\ last.caught
    /\ last.ret = Undefined
    /\ out = <<>>

(***************************************************************************)
(* Properties of the registry and of the chat console.                     *)
(***************************************************************************)
\* C11: for a name the registry holds no descriptor of, set(name, v) and the message
\* !set name value queue no write, leave the world as it is and send one message
\* that reports the failure.
C11_UnregisteredWrite ==
    [][/\ (last'.op = "set" /\ ~HasDescriptor(last'.store)) =>
                /\ pending' = pending
                /\ dynamicProperties' = dynamicProperties
                /\ out' = <<Msg("StoreNotOfType", last'.store, TypeOf(last'.value))>>
       /\ (/\ last'.op = "chatCommands"
           /\ Token(last'.message, 0) = "!set"
           /\ Token(last'.message, 2) # NoToken
           /\ ~HasDescriptor(Token(last'.message, 1))) =>
                /\ pending' = pending
                /\ dynamicProperties' = dynamicProperties
                /\ out' = <<Msg("StoreNotDefined", Token(last'.message, 1), "")>>]_vars

\* a !set message for a name without descriptor, with a value held by another store
C11_Witness ==
    /\ last.op = "chatCommands"
    /\ Token(last.message, 0) = "!set"
    /\ Token(last.message, 2) # NoToken
    /\ ~HasDescriptor(Token(last.message, 1))
    /\ \E k \in StoreNames : dynamicProperties[k] # Undefined
    /\ out = <<Msg("StoreNotDefined", Token(last.message, 1), "")>>

\* C12 as stated: get of a name the registry holds no descriptor of returns undefined
\* and sends the "not defined" message, whatever the world holds.
C12_Original ==
    (last.op = "get" /\ ~HasDescriptor(last.store)) =>
        /\ last.ret = Undefined
        /\ out = <<Msg("StoreNotDefined", last.store, "")>>

\* C12 amended: get does not consult the registry. For a name without descriptor it
\* returns the value the world holds under the name, without message, when another
\* component has written one; it returns undefined when the world holds none, with
\* the "not defined" message when the read returned undefined and without message
\* when the read threw.
C12_GetUnregistered ==
    (last.op = "get" /\ ~HasDescriptor(last.store)) =>
        /\ last.ret = dynamicProperties[last.store]
        /\ ~last.thrown
        /\ dynamicProperties[last.store] # Undefined => (out = <<>> /\ ~last.caught)
        /\ (dynamicProperties[last.store] = Undefined /\ ~last.caught) =>
                out = <<Msg("StoreNotDefined", last.store, "")>>
        /\ last.caught => out = <<>>

\* a get of a name without descriptor that returned a value written directly
C12_Witness ==
    /\ last.op = "get"
    /\ ~HasDescriptor(last.store)
    /\ last.ret # Undefined
    /\ out = <<>>

\* C13 as stated: no two descriptors of the registry have the same name.
C13_Original ==
    \A i, j \in 1 .. Len(registerdStores) :
        registerdStores[i].name = registerdStores[j].name => i = j

\* C13 amended: registerStore appends its descriptor whatever the registry holds, so
\* that a name can have several descriptors; the type found for a name that has a
\* descriptor never changes.
C13_TypeFoundIsStable ==
    [][/\ \A store \in StoreNames :
                HasDescriptor(store) =>
                    FindType(registerdStores', store) = FindType(registerdStores, store)
       /\ last'.op = "registerStore" =>
                registerdStores' = Append(registerdStores, Store(last'.value.s, last'.store))
       /\ registerdStores' # registerdStores => last'.op = "registerStore"]_vars

\* two descriptors of one name with two types: the first one is found
C13_Witness ==
    /\ Len(registerdStores) = 2
    /\ registerdStores[1].name = registerdStores[2].name
    /\ registerdStores[1].type # registerdStores[2].type
    /\ FindType(registerdStores, registerdStores[2].name) = registerdStores[1].type
    /\ last.op = "registerStore"

\* the type of the first descriptor of a name
DeclaredType(store) ==
    registerdStores[CHOOSE i \in 1 .. Len(registerdStores) :
                        /\ registerdStores[i].name = store
                        /\ \A j \in 1 .. (i - 1) : registerdStores[j].name # store].type

\* the tokens that read as a number, with the number
NumberTokens == {<<"0", 0>>, <<"1", 1>>, <<"2", 2>>}

\* the tokens that are "true" once in lower case
TrueTokens == {"true", "TRUE", "True"}

\* the write the !set message is to queue for a store of a type and a value token
CoercedWrite(type, store, token) ==
    CASE type = "string" -> <<Task(store, StrV(token))>>
      [] type = "number" ->
            IF \E e \in NumberTokens : e[1] = token
            THEN <<Task(store, NumV((CHOOSE e \in NumberTokens : e[1] = token)[2]))>>
            ELSE <<>>
      [] type = "boolean" -> <<Task(store, BoolV(token \in TrueTokens))>>

\* C14: for a registered store, the write that !set name value [typeHint] queues is
\* given by the declared type of the store and the value token alone, whatever the
\* type hint: the token itself for a string store, the number it reads as for a
\* number store, TRUE exactly for a token that is "true" in lower case for a boolean
\* store. A token that does not read as a number is reported and queues nothing. The
\* value written has the declared type and set never rejects it.
C14_ChatSetCoercion ==
    [][(/\ last'.op = "chatCommands"
        /\ Token(last'.message, 0) = "!set"
        /\ Token(last'.message, 2) # NoToken
        /\ HasDescriptor(Token(last'.message, 1))) =>
            LET store == Token(last'.message, 1)
                token == Token(last'.message, 2)
                write == CoercedWrite(DeclaredType(store), store, token)
            IN  /\ last'.queued = write
                /\ pending' = pending \o write
                /\ \A i \in 1 .. Len(write) : TypeOf(write[i].value) = DeclaredType(store)
                /\ \A i \in 1 .. Len(out') : out'[i].kind # "StoreNotOfType"
                /\ out' = IF write = <<>> THEN <<Msg("CantParse", store, token)>>
                                          ELSE <<Msg("ValueOf", store, token)>>]_vars

\* a !set with the hint "number" has queued the token itself for a string store
C14_Witness ==
    /\ last.op = "chatCommands"
    /\ Token(last.message, 0) = "!set"
    /\ Token(last.message, 3) = "number"
    /\ HasDescriptor(Token(last.message, 1))
    /\ DeclaredType(Token(last.message, 1)) = "string"
    /\ last.queued = <<Task(Token(last.message, 1), StrV(Token(last.message, 2)))>>

\* C15: once the deletion is armed it stays armed through every step that is not the
\* message !deleteStoresConfirm: other messages, a repeated !deleteStores, method
\* calls and deferred tasks. The message !deleteStoresConfirm then clears the world
\* and disarms.
C15_NoExpiry ==
    [][secondWarning =>
            IF last'.op = "chatCommands" /\ Token(last'.message, 0) = "!deleteStoresConfirm"
            THEN /\ ~secondWarning'
                 /\ last'.cleared
                 /\ \A k \in DOMAIN dynamicProperties' : dynamicProperties'[k] = Undefined
            ELSE secondWarning']_vars

\* the deletion is still armed after a !set that has queued a write
C15_Witness ==
    /\ secondWarning
    /\ last.op = "chatCommands"
    /\ Token(last.message, 0) = "!set"
    /\ last.queued # <<>>

\* C16 as stated: increment of a store whose value is not a number queues no write
\* and sends no message.
C16_Original ==
    (last.op = "increment" /\ TypeOf(dynamicProperties[last.store]) # "number") =>
        /\ last.queued = <<>>
        /\ out = <<>>

\* C16 amended: increment of a store whose value is not a number queues no write and
\* leaves the world as it is. It sends no message when the value is a string or a
\* boolean and when the read throws; when the read returns undefined it sends the
\* "not defined" message of the get it calls.
C16_IncrementNoWrite ==
    [][(last'.op = "increment" /\ TypeOf(dynamicProperties[last'.store]) # "number") =>
            /\ pending' = pending
            /\ last'.queued = <<>>
            /\ dynamicProperties' = dynamicProperties
            /\ out' = IF dynamicProperties[last'.store] = Undefined /\ ~last'.caught
                      THEN <<Msg("StoreNotDefined", last'.store, "")>>
                      ELSE <<>>]_vars

\* an increment of a store without value has sent the message of get
C16_Witness ==
    /\ last.op = "increment"
    /\ HasDescriptor(last.store)
    /\ dynamicProperties[last.store] = Undefined
    /\ ~last.caught
    /\ last.queued = <<>>
    /\ out = <<Msg("StoreNotDefined", last.store, "")>>

\* C18: with every name registered once and no write from another component, every
\* descriptor's store holds undefined or a value of the descriptor's type, after any
\* sequence of registerStore, registerToWorld, set, increment, chat messages and
\* deferred tasks.
C18_TypedStore ==
    \A i \in 1 .. Len(registerdStores) :
        \/ dynamicProperties[registerdStores[i].name] = Undefined
        \/ TypeOf(dynamicProperties[registerdStores[i].name]) = registerdStores[i].type

\* two stores of two types hold values that are not the initial ones, written by
\* deferred tasks, with a further write queued
C18_Witness ==
    /\ Len(registerdStores) = 2
    /\ registerdStores[1].type # registerdStores[2].type
    /\ \A i \in 1 .. 2 :
            /\ dynamicProperties[registerdStores[i].name] # Undefined
            /\ dynamicProperties[registerdStores[i].name] # ZeroValue(registerdStores[i].type)
            /\ TypeOf(dynamicProperties[registerdStores[i].name]) = registerdStores[i].type
    /\ last.op = "system.run"
    /\ pending # <<>>

\* C19: an increment of a store called while the write of an earlier increment of
\* that store is still queued reads the same value n and queues the same write of
\* n + 1; once both writes have run the store holds n + 1, and not n + 2.
C19_LostUpdate ==
    [][(/\ last.op = "increment"
        /\ last.queued # <<>>
        /\ pending # <<>>
        /\ pending[Len(pending)] = last.queued[1]
        /\ last'.op = "increment"
        /\ last'.store = last.store
        /\ pending' # pending) =>
            LET n == dynamicProperties[last.store].n
            IN  /\ last.queued = <<Task(last.store, NumV(n + 1))>>
                /\ last'.queued = last.queued
                /\ pending' = pending \o last.queued
                /\ Flushed(dynamicProperties', pending')[last.store] = NumV(n + 1)
                /\ Flushed(dynamicProperties', pending')[last.store] # NumV(n + 2)]_vars

\* two increments of a store that holds a number, none of their writes run yet
C19_Witness ==
    /\ last.op = "increment"
    /\ Len(pending) = 2
    /\ pending[1] = pending[2]
    /\ last.queued = <<pending[2]>>
    /\ TypeOf(dynamicProperties[last.store]) = "number"
    /\ pending[2] = Task(last.store, NumV(dynamicProperties[last.store].n + 1))

\* C20: the deletion of every dynamic property leaves the queued writes queued; the
\* first of them that runs after it defines its store again, with the value written,
\* and every other store stays undefined.
C20_WriteRacesWipe ==
    [][/\ (last'.op = "chatCommands" /\ last'.cleared
                /\ Token(last'.message, 0) = "!deleteStoresConfirm" /\ secondWarning) =>
            /\ pending' = pending
            /\ \A k \in DOMAIN dynamicProperties' : dynamicProperties'[k] = Undefined
       /\ (last.op = "chatCommands" /\ last.cleared /\ last'.op = "system.run") =>
            /\ pending # <<>>
            /\ dynamicProperties' =
                    [k \in DOMAIN dynamicProperties |->
                        IF k = Head(pending).store THEN Head(pending).value ELSE Undefined]
            /\ dynamicProperties'[Head(pending).store] # Undefined]_vars

\* the world just cleared, with a write still queued
C20_Witness ==
    /\ last.op = "chatCommands"
    /\ last.cleared
    /\ pending # <<>>
    /\ \A k \in DOMAIN dynamicProperties : dynamicProperties[k] = Undefined

(***************************************************************************)
(* Properties of level3.                                                   *)
(***************************************************************************)
\* C8: checkCompletion returns true exactly when every condition of the list matches
\* the block at its position and the block under the agent is not water; when it
\* returns true it teleports nothing, leaves the agent where it is and fills no block.
C8_CompletionSignal ==
    check.called =>
        /\ (check.ret = BoolV(TRUE)) <=> (check.complete /\ ~check.water)
        /\ check.ret = BoolV(TRUE) =>
                /\ check.teleports = 0
                /\ check.fills = <<>>
                /\ check.atEnd <=> (check.agent = Level3EndPosition)

\* a check that returned true with the agent at the end position
C8_Witness ==
    /\ check.called
    /\ check.ret = BoolV(TRUE)
    /\ check.atEnd
    /\ check.agent = Level3EndPosition

\* C9: when the agent stands on water, checkCompletion teleports it to the start
\* position once, fills no block and returns false, and the level stays Running:
\* also with every condition matched, also with the agent at the end position.
C9_OutOfBounds ==
    (check.called /\ check.water) =>
        /\ check.ret = BoolV(FALSE)
        /\ check.agent = level3StartPosition
        /\ check.teleports = 1
        /\ check.fills = <<>>
        /\ levelState = "Running"

\* a check with the agent on water at the end position and every condition matched
C9_Witness ==
    /\ check.called
    /\ check.water
    /\ check.complete
    /\ check.atEnd
    /\ check.ret = BoolV(FALSE)

\* C10: with a condition not matched, the agent not on water and the agent at the
\* end position, checkCompletion teleports the agent to the start position, fills the
\* reset position with a redstone block, returns undefined, and the level stays
\* Running.
C10_ReachedEndButWrong ==
    (check.called /\ ~check.complete /\ ~check.water /\ check.atEnd) =>
        /\ check.ret = Undefined
        /\ check.agent = level3StartPosition
        /\ check.teleports = 1
        /\ check.fills = <<<<level3ResetCommandBlockPos, "minecraft:redstone_block">>>>
        /\ levelState = "Running"

\* a check at the end position with a condition not matched
C10_Witness ==
    /\ check.called
    /\ ~check.complete
    /\ ~check.water
    /\ check.atEnd
    /\ check.ret = Undefined
    /\ check.teleports = 1

\* the four outcomes of a call of checkCompletion, by its result and its effects
OutcomeCompleted(c) ==
    c.ret = BoolV(TRUE) /\ c.teleports = 0 /\ c.fills = <<>> /\ c.titles = 0

OutcomeOutOfBounds(c) ==
    c.ret = BoolV(FALSE) /\ c.teleports = 1 /\ c.fills = <<>> /\ c.titles = 1

OutcomeReachedEndButWrong(c) ==
    /\ c.ret = Undefined
    /\ c.teleports = 1
    /\ c.fills = <<<<level3ResetCommandBlockPos, "minecraft:redstone_block">>>>
    /\ c.titles = 1

OutcomeNotYetAttempted(c) ==
    c.ret = Undefined /\ c.teleports = 0 /\ c.fills = <<>> /\ c.titles = 0

\* C17: a call of checkCompletion has exactly one of the four outcomes: it teleports
\* the agent at most once, it sets the reset block only when the agent is at the end
\* position with a condition not matched and not on water, and with a condition not
\* matched, the agent not on water and not at the end position it returns undefined
\* and leaves the agent, the title, the subtitle and the blocks as they are.
C17_OutcomesExclusive ==
    [][/\ check'.called =>
            /\ check'.teleports <= 1
            /\ \/ OutcomeCompleted(check')
               \/ OutcomeOutOfBounds(check')
               \/ OutcomeReachedEndButWrong(check')
               \/ OutcomeNotYetAttempted(check')
            /\ check'.fills # <<>> <=> (~check'.complete /\ ~check'.water /\ check'.atEnd)
            /\ (~check'.complete /\ ~check'.water /\ ~check'.atEnd) =>
                    OutcomeNotYetAttempted(check')
       /\ (check'.called /\ <<check, hud>>' # <<check, hud>>) =>
            /\ agentLocation' \in {agentLocation, level3StartPosition}
            /\ blocks' # blocks => (~AllConditionsMatch(blocks)
                                    /\ ~AgentOnWater(agentLocation, blocks)
                                    /\ agentLocation = Level3EndPosition)
            /\ (/\ ~AllConditionsMatch(blocks)
                /\ ~AgentOnWater(agentLocation, blocks)
                /\ agentLocation # Level3EndPosition) =>
                    /\ agentLocation' = agentLocation
                    /\ blocks' = blocks
                    /\ hud'.title = hud.title
                    /\ hud'.subtitle = hud.subtitle]_vars

\* a check with a condition not matched, the agent neither on water nor at the end
C17_Witness ==
    /\ check.called
    /\ ~check.complete
    /\ ~check.water
    /\ ~check.atEnd
    /\ OutcomeNotYetAttempted(check)
    /\ agentLocation = check.agent

=============================================================================
